---- MODULE Spec2Model ----
(***************************************************************************)
(* Model of lighthouse-auditor/app/utils/lighthouse.py: the issue          *)
(* extractor (LighthouseRunner.extract_issues and its helpers) and the     *)
(* report chunker (ReportChunker.chunk_report).                            *)
(*                                                                         *)
(* Python dicts are functions whose DOMAIN is the set of keys present, so  *)
(* that d.get(k, default) and "k in d" are modelled as the code evaluates  *)
(* them.  The audits mapping is an insertion-ordered dict: a sequence of   *)
(* <<key, value>> pairs with distinct keys.  Scores are in tenths          *)
(* (0.3 is 3, 1.0 is 10).                                                  *)
(***************************************************************************)
EXTENDS Integers, Sequences, FiniteSets, TLC

VARIABLES
    report,          \* the report dict handed to both operations
    pc,              \* "idle", "chunk_loop" or "extract_loop"
    result,          \* what the last finished call returned or raised
    arg,             \* the report argument of the running or last call
    it,              \* position of the running for-loop in audits.items()
    max_chunk_size,  \* chunk_report: argument
    chunks,          \* chunk_report: local list
    current_chunk,   \* chunk_report: local dict
    current_size,    \* chunk_report: local int
    report_data,     \* extract_issues: decoded report
    issues,          \* extract_issues: local list
    audit_data,      \* argument of a helper called on its own
    ret,             \* return value of a helper called on its own
    calls            \* number of calls of the two operations made on the report

\* one run of the create command (cli/commands/create.py)
VARIABLES
    cpc,             \* position of the run in create, "off" when create is not run
    opts,            \* the command-line options of the run
    clocals,         \* create: final_agent, final_deployment, include_data_ingestion,
                     \* region and creds_info
    fs,              \* which directories exist, and whether regions were replaced
    events,          \* the external calls made so far, each with its outcome
    cresult,         \* how create ended: returned, or the exception it raised
    uv_ret           \* how check_and_install_uv ended

lh_vars == <<report, pc, result, arg, it, max_chunk_size, chunks, current_chunk,
             current_size, report_data, issues, audit_data, ret, calls>>

create_vars == <<cpc, opts, clocals, fs, events, cresult, uv_ret>>

vars == <<report, pc, result, arg, it, max_chunk_size, chunks, current_chunk,
          current_size, report_data, issues, audit_data, ret, calls,
          cpc, opts, clocals, fs, events, cresult, uv_ret>>

---------------------------------------------------------------------------
(* Bounds of the model *)

MaxAudits == 3

MaxItems == 2

MaxSparseAudits == 1

MaxCalls == 2

(* Program constant: default of max_chunk_size *)
DefaultMaxChunkSize == 8000

---------------------------------------------------------------------------
(* Python dict and list primitives *)

EmptyDict == <<>>

Get(d, k, default) == IF k \in DOMAIN d THEN d[k] ELSE default

\* items() of an ordered dict: the <<key, value>> pairs in insertion order
Items(od) == od

Keys(od) == [i \in 1..Len(od) |-> od[i][1]]

\* od[k] = v : replaces the value in place when k is present, appends otherwise
SetItem(od, k, v) ==
    IF \E i \in 1..Len(od) : od[i][1] = k
    THEN [i \in 1..Len(od) |-> IF od[i][1] = k THEN <<k, v>> ELSE od[i]]
    ELSE Append(od, <<k, v>>)

\* len(json.dumps(audit_data)): the serialized length is carried by the
\* entry as json_len (its title and other free text are not modelled
\* character by character)
JsonDumpsLen(d) == d.json_len

RECURSIVE Flatten(_)
Flatten(ss) == IF ss = <<>> THEN <<>> ELSE Head(ss) \o Flatten(Tail(ss))

Range(s) == {s[i] : i \in 1..Len(s)}

\* all orders in which the elements of a finite set can be listed
Perms(S) ==
    {p \in [1..Cardinality(S) -> S] : \A i, j \in 1..Cardinality(S) : i # j => p[i] # p[j]}

---------------------------------------------------------------------------
(* Python values whose type the code inspects are tagged with their type:   *)
(* a dict is [type, v], text is [type, s] with s its tokens, an int is      *)
(* [type, n], a list is [type, l]                                          *)

None == [type |-> "NoneType"]

IsDict(x) == x.type = "dict"

IsStr(x) == x.type = "str"

\* markup tokens that BeautifulSoup drops from the text of a snippet
Tags == {"<b>", "</b>"}

NotTag(tok) == tok \notin Tags

\* BeautifulSoup(snippet, 'html.parser').get_text(): the text without markup
GetText(snippet) == [type |-> "str", s |-> SelectSeq(snippet.s, NotTag)]

\* str(snippet) of a value that is not text
Str(snippet) == [type |-> "str", s |-> <<ToString(snippet.n)>>]

---------------------------------------------------------------------------
(* LighthouseRunner helpers *)

_calculate_impact_wrong_bound(d) ==
    LET score == Get(d, "score", 0)
        weight == Get(d, "weight", 0)
    IN  IF score <= 5 /\ weight > 3 THEN "high"
        ELSE IF score < 8 THEN "medium"
        ELSE "low"

_calculate_impact_low_by_weight(d) ==
    LET score == Get(d, "score", 0)
        weight == Get(d, "weight", 0)
    IN  IF score < 5 /\ weight > 3 THEN "high"
        ELSE IF score < 8 /\ weight > 3 THEN "medium"
        ELSE "low"

_calculate_impact(d) ==
    LET score == Get(d, "score", 0)
        weight == Get(d, "weight", 0)
    IN  IF score < 5 /\ weight > 3 THEN "high"
        ELSE IF score < 8 THEN "medium"
        ELSE "low"

SuggestionKeys == <<"suggestion", "recommendation", "message">>

SnippetKeys == <<"snippet", "source", "code">>

\* the values an item contributes: for key in [...]: if key in item: append
RECURSIVE ItemValues(_, _)
ItemValues(item, keys) ==
    IF keys = <<>> THEN <<>>
    ELSE (IF Head(keys) \in DOMAIN item THEN <<item[Head(keys)]>> ELSE <<>>)
         \o ItemValues(item, Tail(keys))

\* for item in details["items"]: if isinstance(item, dict): ...
RECURSIVE ItemsValues(_, _)
ItemsValues(items, keys) ==
    IF items = <<>> THEN <<>>
    ELSE (IF IsDict(Head(items)) THEN ItemValues(Head(items).v, keys) ELSE <<>>)
         \o ItemsValues(Tail(items), keys)

\* the list suggestions as it stands before the return statement
SuggestionsList(d) ==
    LET fromDescription == IF "description" \in DOMAIN d THEN <<d["description"]>> ELSE <<>>
        details == Get(d, "details", EmptyDict)
        fromItems == IF "items" \in DOMAIN details
                     THEN ItemsValues(details["items"], SuggestionKeys)
                     ELSE <<>>
    IN  fromDescription \o fromItems

_extract_suggestions_no_dedup(d) == {SuggestionsList(d)}

\* list(set(suggestions)): the distinct values, in an order Python does not
\* specify; the operator is the set of lists the call can return
_extract_suggestions(d) == Perms(Range(SuggestionsList(d)))

\* scans key by key instead of item by item
_extract_code_snippet_key_major(d) ==
    LET details == Get(d, "details", EmptyDict)
        items == IF "items" \in DOMAIN details THEN details["items"] ELSE <<>>
        found == ItemsValues(items, <<"snippet">>) \o ItemsValues(items, <<"source">>)
                 \o ItemsValues(items, <<"code">>)
    IN  IF found = <<>> THEN None
        ELSE IF IsStr(Head(found)) THEN GetText(Head(found))
        ELSE Str(Head(found))

\* the first value found, scanning items in order and keys in order
_extract_code_snippet(d) ==
    LET details == Get(d, "details", EmptyDict)
        found == IF "items" \in DOMAIN details
                 THEN ItemsValues(details["items"], SnippetKeys)
                 ELSE <<>>
    IN  IF found = <<>> THEN None
        ELSE IF IsStr(Head(found)) THEN GetText(Head(found))
        ELSE Str(Head(found))

\* AuditIssue(...) as built in extract_issues, given the suggestions list
\* that _extract_suggestions returned
AuditIssue(d, suggestions) ==
    [title |-> Get(d, "title", "Unknown Issue"),
     description |-> Get(d, "description", ""),
     score |-> Get(d, "score", 0),
     impact |-> _calculate_impact(d),
     suggestions |-> suggestions,
     code_snippet |-> _extract_code_snippet(d),
     file_path |-> None,
     line_number |-> None]

---------------------------------------------------------------------------
(* Inputs: the reports, entries and items the operations are run on *)

Texts == {"t1", "t2"}

\* every dict with keys among keys and values among vals
DictsOver(keys, vals) == UNION {[K -> vals] : K \in SUBSET keys}

\* either no key k, or key k with one of vals
OptField(k, vals) == {EmptyDict} \cup {[x \in {k} |-> v] : v \in vals}

SeqsUpTo(S, n) == UNION {[1..k -> S] : k \in 0..n}

MarkedUpSnippet == [type |-> "str", s |-> <<"<b>", "x", "</b>">>]

\* items of details.items: mappings with any of the suggestion keys, a
\* mapping with a snippet, a mapping with both kinds, and an item that is
\* not a mapping
DetailItems ==
    {[type |-> "dict", v |-> d] :
        d \in DictsOver({"suggestion", "recommendation", "message"}, Texts)}
    \cup {[type |-> "dict", v |-> [snippet |-> MarkedUpSnippet]],
          [type |-> "dict", v |-> [message |-> "t1", code |-> [type |-> "int", n |-> 42]]],
          [type |-> "str", s |-> <<"t1">>]}

DetailsOver(items) ==
    {EmptyDict, [type |-> "table"]}
    \cup {[type |-> "table", items |-> s] : s \in SeqsUpTo(items, MaxItems)}

\* entries for _calculate_impact: every score in tenths and every weight,
\* each possibly absent
MaxWeight == 10

ImpactInputs ==
    {s @@ w : s \in OptField("score", 0..10), w \in OptField("weight", 0..MaxWeight)}

\* entries for _extract_suggestions
SuggestionInputs ==
    {s @@ d @@ t : s \in {[score |-> 3]},
                   d \in OptField("description", Texts),
                   t \in OptField("details", DetailsOver(DetailItems))}

\* values found under snippet, source or code: text with markup, and a
\* value that is not text
SnippetValues == {MarkedUpSnippet, [type |-> "int", n |-> 42]}

\* items for _extract_code_snippet: mappings with any of the snippet keys,
\* a mapping without any, and an item that is not a mapping
SnippetItems ==
    {[type |-> "dict", v |-> d] :
        d \in DictsOver({"snippet", "source", "code"}, SnippetValues)}
    \cup {[type |-> "dict", v |-> [message |-> "t1"]],
          [type |-> "str", s |-> <<"x">>]}

\* entries for _extract_code_snippet
SnippetInputs ==
    {s @@ t : s \in {[score |-> 3]}, t \in OptField("details", DetailsOver(SnippetItems))}

\* contents of the entries of a whole report
FailingRich ==
    [title |-> "T1", score |-> 3, weight |-> 5, description |-> "t1",
     details |-> [type |-> "table",
                  items |-> <<[type |-> "dict",
                               v |-> [suggestion |-> "t1", message |-> "t2",
                                      source |-> MarkedUpSnippet]],
                              [type |-> "str", s |-> <<"t2">>]>>]]

FailingSparse == [score |-> 6]

Passing == [title |-> "T2", score |-> 10, weight |-> 1, description |-> "t2"]

NoScore == [title |-> "T3", details |-> [type |-> "table"]]

WithLen(d, n) == d @@ [json_len |-> n]

\* the entries reports are made of: four contents, each in two of the three
\* serialized sizes
AuditEntries ==
    {WithLen(FailingRich, 2000), WithLen(FailingRich, 3000),
     WithLen(Passing, 3000), WithLen(Passing, 9000),
     WithLen(FailingSparse, 2000), WithLen(FailingSparse, 3000),
     WithLen(NoScore, 2000), WithLen(NoScore, 9000)}

\* entries with every subset of the optional fields score, weight,
\* description and details, and details with and without items
SparseEntries ==
    {WithLen([title |-> "T1"] @@ s @@ w @@ d @@ t, 3000) :
        s \in OptField("score", {3, 6, 10}),
        w \in OptField("weight", {5}),
        d \in OptField("description", {"t1"}),
        t \in OptField("details",
                       {[type |-> "table"],
                        [type |-> "table",
                         items |-> <<[type |-> "dict",
                                      v |-> [suggestion |-> "t2", code |-> MarkedUpSnippet]],
                                     [type |-> "str", s |-> <<"t2">>]>>]})}

AuditIds == <<"a", "b", "c", "d", "e">>

\* ordered audits mappings: the i-th key is AuditIds[i]
AuditsMappings ==
    UNION {{[i \in 1..n |-> <<AuditIds[i], es[i]>>] : es \in [1..n -> AuditEntries]} :
           n \in 0..MaxAudits}

Metadatas == {[url |-> "u1"]}

Reports ==
    {m @@ a : m \in OptField("metadata", Metadatas), a \in OptField("audits", AuditsMappings)}

\* reports of up to MaxSparseAudits entries that lack optional fields
SparseReports ==
    UNION {{[metadata |-> [url |-> "u1"],
             audits |-> [i \in 1..n |-> <<AuditIds[i], es[i]>>]] : es \in [1..n -> SparseEntries]} :
           n \in 0..MaxSparseAudits}

MaxChunkSizes == {1, 4000, DefaultMaxChunkSize}

---------------------------------------------------------------------------
(* JSON text handed to extract_issues *)

\* json.loads(text): JSONDecodeError on malformed text, else the decoded value
JsonLoads(text) ==
    IF text.wellformed THEN [ok |-> TRUE, value |-> text.value] ELSE [ok |-> FALSE]

\* the texts a caller can pass for report r: its JSON encoding, a malformed
\* text, and well-formed JSON whose top level is not an object
JsonTexts(r) ==
    {[wellformed |-> TRUE, value |-> [type |-> "dict", v |-> r]],
     [wellformed |-> FALSE],
     [wellformed |-> TRUE, value |-> [type |-> "list", l |-> <<>>]],
     [wellformed |-> TRUE, value |-> None]}

\* the arguments extract_issues is called with for report r
ExtractArgs(r) ==
    {[type |-> "dict", v |-> r]} \cup {[type |-> "str", s |-> t] : t \in JsonTexts(r)}

---------------------------------------------------------------------------
(* Results of a call *)

NoResult == [kind |-> "none"]

Return(fn, v) == [kind |-> "return", fn |-> fn, v |-> v]

Raise(fn, exc) == [kind |-> "raise", fn |-> fn, exc |-> exc]

NoRet == [fn |-> "none"]

---------------------------------------------------------------------------
(* ReportChunker.chunk_report *)

\* a list that outlives the call, as a class attribute or a mutable default
\* argument would
FreshChunks_shared(old) == old

\* chunks = []: a new list in every call, whatever an earlier call left
FreshChunks(old) == <<>>

\* current_chunk = {"metadata": report.get("metadata", {}), "audits": {}}
FirstChunk(r) == [metadata |-> Get(r, "metadata", EmptyDict), audits |-> <<>>]

NextChunk_no_metadata(r) == [metadata |-> EmptyDict, audits |-> <<>>]

\* the chunk started after a split
NextChunk(r) == [metadata |-> Get(r, "metadata", EmptyDict), audits |-> <<>>]

StartsNewChunk_ge(size, audit_size, max, chunk) ==
    size + audit_size >= max /\ chunk.audits # <<>>

StartsNewChunk_any(size, audit_size, max, chunk) ==
    size + audit_size > max

StartsNewChunk_late(size, audit_size, max, chunk) ==
    size > max /\ chunk.audits # <<>>

\* if current_size + audit_size > max_chunk_size and current_chunk["audits"]
StartsNewChunk(size, audit_size, max, chunk) ==
    size + audit_size > max /\ chunk.audits # <<>>

FinalChunks_no_flush(cs, chunk) == cs

\* if current_chunk["audits"]: chunks.append(current_chunk)
FinalChunks(cs, chunk) ==
    IF chunk.audits # <<>> THEN Append(cs, chunk) ELSE cs

AuditsOf(r) == Items(Get(r, "audits", <<>>))

chunk_report_call(m) ==
    /\ pc = "idle"
    /\ calls < MaxCalls
    /\ arg' = [type |-> "dict", v |-> report]
    /\ pc' = "chunk_loop"
    /\ max_chunk_size' = m
    /\ chunks' = FreshChunks(chunks)
    /\ current_chunk' = FirstChunk(report)
    /\ current_size' = 0
    /\ it' = 1
    /\ result' = NoResult
    /\ report_data' = None
    /\ issues' = <<>>
    /\ calls' = calls + 1
    /\ UNCHANGED <<report, audit_data, ret>>
    /\ UNCHANGED create_vars

\* one pass of the for loop over report.get("audits", {}).items()
chunk_report_iter ==
    /\ pc = "chunk_loop"
    /\ it <= Len(AuditsOf(report))
    /\ LET audit_id == AuditsOf(report)[it][1]
           data == AuditsOf(report)[it][2]
           audit_size == JsonDumpsLen(data)
           split == StartsNewChunk(current_size, audit_size, max_chunk_size, current_chunk)
           chunk1 == IF split THEN NextChunk(report) ELSE current_chunk
           size1 == IF split THEN 0 ELSE current_size
       IN  /\ chunks' = IF split THEN Append(chunks, current_chunk) ELSE chunks
           /\ current_chunk' = [chunk1 EXCEPT !.audits = SetItem(@, audit_id, data)]
           /\ current_size' = size1 + audit_size
    /\ it' = it + 1
    /\ UNCHANGED <<report, calls, pc, result, arg, max_chunk_size, report_data, issues, audit_data, ret>>
    /\ UNCHANGED create_vars

chunk_report_return ==
    /\ pc = "chunk_loop"
    /\ it > Len(AuditsOf(report))
    /\ chunks' = FinalChunks(chunks, current_chunk)
    /\ result' = Return("chunk_report", chunks')
    /\ pc' = "idle"
    /\ UNCHANGED <<report, calls, arg, it, max_chunk_size, current_chunk, current_size,
                   report_data, issues, audit_data, ret>>
    /\ UNCHANGED create_vars

---------------------------------------------------------------------------
(* LighthouseRunner.extract_issues *)

IsFailed_default_zero(d) == Get(d, "score", 0) < 10

\* if audit_data.get("score", 1) < 1
IsFailed(d) == Get(d, "score", 10) < 10

\* the decoding at the head of extract_issues
Decode(a) ==
    IF IsStr(a) THEN JsonLoads(a.s) ELSE [ok |-> TRUE, value |-> a]

ResetChunker ==
    /\ max_chunk_size' = 0
    /\ chunks' = <<>>
    /\ current_chunk' = EmptyDict
    /\ current_size' = 0

\* json.loads raised JSONDecodeError: raise ValueError("Invalid JSON report")
extract_issues_invalid_json(a) ==
    /\ pc = "idle"
    /\ calls < MaxCalls
    /\ arg' = a
    /\ ~Decode(a).ok
    /\ result' = Raise("extract_issues", "ValueError")
    /\ report_data' = None
    /\ issues' = <<>>
    /\ it' = 1
    /\ ResetChunker
    /\ calls' = calls + 1
    /\ UNCHANGED <<report, pc, audit_data, ret>>
    /\ UNCHANGED create_vars

\* the decoded value is not a dict: report_data.get raises AttributeError
extract_issues_not_a_dict(a) ==
    /\ pc = "idle"
    /\ calls < MaxCalls
    /\ arg' = a
    /\ Decode(a).ok
    /\ ~IsDict(Decode(a).value)
    /\ result' = Raise("extract_issues", "AttributeError")
    /\ report_data' = Decode(a).value
    /\ issues' = <<>>
    /\ it' = 1
    /\ ResetChunker
    /\ calls' = calls + 1
    /\ UNCHANGED <<report, pc, audit_data, ret>>
    /\ UNCHANGED create_vars

extract_issues_call(a) ==
    /\ pc = "idle"
    /\ calls < MaxCalls
    /\ arg' = a
    /\ Decode(a).ok
    /\ IsDict(Decode(a).value)
    /\ pc' = "extract_loop"
    /\ result' = NoResult
    /\ report_data' = Decode(a).value
    /\ issues' = <<>>
    /\ it' = 1
    /\ ResetChunker
    /\ calls' = calls + 1
    /\ UNCHANGED <<report, audit_data, ret>>
    /\ UNCHANGED create_vars

\* one pass of the for loop over audits.items()
extract_issues_iter ==
    /\ pc = "extract_loop"
    /\ it <= Len(AuditsOf(report_data.v))
    /\ LET data == AuditsOf(report_data.v)[it][2]
       IN  IF IsFailed(data)
           THEN \E suggestions \in _extract_suggestions(data) :
                    issues' = Append(issues, AuditIssue(data, suggestions))
           ELSE issues' = issues
    /\ it' = it + 1
    /\ UNCHANGED <<report, calls, pc, result, arg, max_chunk_size, chunks, current_chunk,
                   current_size, report_data, audit_data, ret>>
    /\ UNCHANGED create_vars

extract_issues_return ==
    /\ pc = "extract_loop"
    /\ it > Len(AuditsOf(report_data.v))
    /\ result' = Return("extract_issues", issues)
    /\ pc' = "idle"
    /\ UNCHANGED <<report, calls, arg, it, max_chunk_size, chunks, current_chunk,
                   current_size, report_data, issues, audit_data, ret, calls>>
    /\ UNCHANGED create_vars

\* create is not run
CreateOff ==
    /\ cpc = "off"
    /\ opts = EmptyDict
    /\ clocals = EmptyDict
    /\ fs = EmptyDict
    /\ events = <<>>
    /\ cresult = [kind |-> "none"]
    /\ uv_ret = [kind |-> "none"]

---------------------------------------------------------------------------
(* The two operations run, in any sequence, on one report *)

Init ==
    /\ report \in Reports
    /\ pc = "idle"
    /\ result = NoResult
    /\ arg = None
    /\ it = 1
    /\ max_chunk_size = 0
    /\ chunks = <<>>
    /\ current_chunk = EmptyDict
    /\ current_size = 0
    /\ report_data = None
    /\ issues = <<>>
    /\ audit_data = EmptyDict
    /\ ret = NoRet
    /\ calls = 0
    /\ CreateOff

Next ==
    \/ \E m \in MaxChunkSizes : chunk_report_call(m)
    \/ chunk_report_iter
    \/ chunk_report_return
    \/ \E a \in ExtractArgs(report) : extract_issues_invalid_json(a)
    \/ \E a \in ExtractArgs(report) : extract_issues_not_a_dict(a)
    \/ \E a \in ExtractArgs(report) : extract_issues_call(a)
    \/ extract_issues_iter
    \/ extract_issues_return

Spec == Init /\ [][Next]_vars

\* the same operations on reports whose entries lack optional fields
InitSparse ==
    /\ report \in SparseReports
    /\ pc = "idle"
    /\ result = NoResult
    /\ arg = None
    /\ it = 1
    /\ max_chunk_size = 0
    /\ chunks = <<>>
    /\ current_chunk = EmptyDict
    /\ current_size = 0
    /\ report_data = None
    /\ issues = <<>>
    /\ audit_data = EmptyDict
    /\ ret = NoRet
    /\ calls = 0
    /\ CreateOff

SpecSparse == InitSparse /\ [][Next]_vars

---------------------------------------------------------------------------
(* The helpers run on their own, each on one entry *)

LighthouseIdle ==
    /\ report = EmptyDict
    /\ pc = "helper"
    /\ result = NoResult
    /\ arg = None
    /\ it = 1
    /\ max_chunk_size = 0
    /\ chunks = <<>>
    /\ current_chunk = EmptyDict
    /\ current_size = 0
    /\ report_data = None
    /\ issues = <<>>
    /\ ret = NoRet
    /\ calls = 0

HelperIdle == LighthouseIdle /\ CreateOff

call_calculate_impact ==
    /\ pc = "helper"
    /\ ret = NoRet
    /\ ret' = [fn |-> "_calculate_impact", v |-> _calculate_impact(audit_data)]
    /\ UNCHANGED <<report, calls, pc, result, arg, it, max_chunk_size, chunks, current_chunk,
                   current_size, report_data, issues, audit_data>>
    /\ UNCHANGED create_vars

call_extract_suggestions ==
    /\ pc = "helper"
    /\ ret = NoRet
    /\ \E suggestions \in _extract_suggestions(audit_data) :
           ret' = [fn |-> "_extract_suggestions", v |-> suggestions]
    /\ UNCHANGED <<report, calls, pc, result, arg, it, max_chunk_size, chunks, current_chunk,
                   current_size, report_data, issues, audit_data>>
    /\ UNCHANGED create_vars

call_extract_code_snippet ==
    /\ pc = "helper"
    /\ ret = NoRet
    /\ ret' = [fn |-> "_extract_code_snippet", v |-> _extract_code_snippet(audit_data)]
    /\ UNCHANGED <<report, calls, pc, result, arg, it, max_chunk_size, chunks, current_chunk,
                   current_size, report_data, issues, audit_data>>
    /\ UNCHANGED create_vars

InitImpact == HelperIdle /\ audit_data \in ImpactInputs

NextImpact == call_calculate_impact

SpecImpact == InitImpact /\ [][NextImpact]_vars

InitSuggestions == HelperIdle /\ audit_data \in SuggestionInputs

NextSuggestions == call_extract_suggestions

SpecSuggestions == InitSuggestions /\ [][NextSuggestions]_vars

InitSnippet == HelperIdle /\ audit_data \in SnippetInputs

NextSnippet == call_extract_code_snippet

SpecSnippet == InitSnippet /\ [][NextSnippet]_vars

---------------------------------------------------------------------------
(* cli/commands/create.py: one run of the create command.  External calls  *)
(* (subprocesses, prompts, the gcp and template utilities) are steps with   *)
(* every outcome they can have; each is logged in events as                *)
(* <<call, outcome>>.                                                      *)

\* default of --region, and the region the templates are written for
DefaultRegion == "us-central1"

\* --agent: absent, a valid agent name, a valid agent number, a number that
\* is no agent, or text that is neither
AgentOptions == {"none", "name", "number", "bad_number", "bad_text"}

\* --region: not on the command line, or given with one of two regions
RegionOptions == {"default", "us-central1", "europe-west1"}

CreateOptions ==
    [agent : AgentOptions,
     deployment_target : {"none", "agent_engine"},
     include_data_ingestion : BOOLEAN,
     gcp_account : BOOLEAN,
     gcp_project : BOOLEAN,
     auto_approve : BOOLEAN,
     skip_checks : BOOLEAN,
     region : RegionOptions]

\* the project directory lies in the destination directory
FileSystems ==
    {f \in [project : BOOLEAN, dest : BOOLEAN, replaced : {FALSE}] : f.project => f.dest}

Log(call, outcome) == Append(events, <<call, outcome>>)

CreateRunning == [kind |-> "running"]

\* create returns at the place at
CreateReturns(at) ==
    /\ cresult' = [kind |-> "return", at |-> at]
    /\ cpc' = "done"

\* create raises exc at the place at (the except clause at the end re-raises)
CreateRaises(exc, at) ==
    /\ cresult' = [kind |-> "raise", exc |-> exc, at |-> at]
    /\ cpc' = "done"

\* if project_path.exists(): print the error and return
create_check_project ==
    /\ cpc = "start"
    /\ IF fs.project
       THEN CreateReturns("project_exists")
       ELSE cpc' = "agent" /\ UNCHANGED cresult
    /\ UNCHANGED <<opts, clocals, fs, events, uv_ret>>
    /\ UNCHANGED lh_vars

\* how agent selection can go for a value of --agent: by name, by number,
\* or through display_agent_selection when --agent is absent
SelectAgentOutcomes(a) ==
    CASE a = "name" -> {"valid_name"}
      [] a = "number" -> {"valid_number"}
      [] a = "bad_number" -> {"invalid_number"}
      [] a = "bad_text" -> {"not_a_number"}
      [] a = "none" -> {"no_agents", "invalid_choice", "chosen"}

\* the exception an outcome of agent selection raises, "none" if it selects
SelectAgentError(o) ==
    CASE o \in {"invalid_number", "not_a_number", "invalid_choice"} -> "ValueError"
      [] o = "no_agents" -> "ClickException"
      [] OTHER -> "none"

create_select_agent ==
    /\ cpc = "agent"
    /\ \E o \in SelectAgentOutcomes(opts.agent) :
        /\ events' = Log(IF opts.agent = "none" THEN "display_agent_selection"
                         ELSE "get_available_agents", o)
        /\ IF SelectAgentError(o) # "none"
           THEN CreateRaises(SelectAgentError(o), "agent_selection") /\ UNCHANGED clocals
           ELSE /\ cpc' = "deployment"
                /\ clocals' = [clocals EXCEPT !.agent = o]
                /\ UNCHANGED cresult
    /\ UNCHANGED <<opts, fs, uv_ret>>
    /\ UNCHANGED lh_vars

\* final_deployment = deployment_target or prompt_deployment_target(final_agent)
create_deployment_target ==
    /\ cpc = "deployment"
    /\ IF opts.deployment_target # "none"
       THEN /\ clocals' = [clocals EXCEPT !.deployment = opts.deployment_target]
            /\ UNCHANGED events
       ELSE /\ clocals' = [clocals EXCEPT !.deployment = "cloud_run"]
            /\ events' = Log("prompt_deployment_target", "cloud_run")
    /\ cpc' = "ingestion"
    /\ UNCHANGED <<opts, fs, cresult, uv_ret>>
    /\ UNCHANGED lh_vars

\* include_data_ingestion = include_data_ingestion or prompt_data_ingestion(...)
create_data_ingestion ==
    /\ cpc = "ingestion"
    /\ IF opts.include_data_ingestion
       THEN UNCHANGED <<clocals, events>>
       ELSE \E answer \in BOOLEAN :
              /\ clocals' = [clocals EXCEPT !.ingestion = answer]
              /\ events' = Log("prompt_data_ingestion", IF answer THEN "yes" ELSE "no")
    /\ cpc' = "region"
    /\ UNCHANGED <<opts, fs, cresult, uv_ret>>
    /\ UNCHANGED lh_vars

\* prompt_region_confirmation: a blank answer keeps the default
RegionAnswered(answer, default_region) ==
    IF answer # "" THEN answer ELSE default_region

\* the region is confirmed unless --auto-approve or --region was given
create_region ==
    /\ cpc = "region"
    /\ IF ~opts.auto_approve /\ opts.region = "default"
       THEN \E answer \in {"", "europe-west1"} :
              /\ clocals' = [clocals EXCEPT !.region = RegionAnswered(answer, @)]
              /\ events' = Log("prompt_region_confirmation", answer)
       ELSE UNCHANGED <<clocals, events>>
    /\ cpc' = "gcloud"
    /\ UNCHANGED <<opts, fs, cresult, uv_ret>>
    /\ UNCHANGED lh_vars

\* the three gcloud commands, run in order until one fails
GcloudOutcomes == {"ok", "account_failed", "project_failed", "quota_failed"}

GcloudRuns(o) ==
    LET account == <<"gcloud config set account", IF o = "account_failed" THEN "failed" ELSE "ok">>
        project == <<"gcloud config set project", IF o = "project_failed" THEN "failed" ELSE "ok">>
        quota == <<"gcloud set-quota-project", IF o = "quota_failed" THEN "failed" ELSE "ok">>
    IN  CASE o = "account_failed" -> <<account>>
          [] o = "project_failed" -> <<account, project>>
          [] OTHER -> <<account, project, quota>>

\* if gcp_account and gcp_project: configure gcloud, re-raising a failure
create_gcloud_config ==
    /\ cpc = "gcloud"
    /\ IF opts.gcp_account /\ opts.gcp_project
       THEN \E o \in GcloudOutcomes :
              /\ events' = events \o GcloudRuns(o)
              /\ IF o = "ok"
                 THEN cpc' = "checks" /\ UNCHANGED cresult
                 ELSE CreateRaises("CalledProcessError", "gcloud_config")
       ELSE /\ cpc' = "checks"
            /\ UNCHANGED <<events, cresult>>
    /\ UNCHANGED <<opts, clocals, fs, uv_ret>>
    /\ UNCHANGED lh_vars

\* --skip-checks: no credential verification and no uv check; creds_info is
\* {"project": gcp_project} or {"project": "unknown"}
create_skip_checks ==
    /\ cpc = "checks"
    /\ opts.skip_checks
    /\ clocals' = [clocals EXCEPT !.creds = IF opts.gcp_project THEN "gcp_project" ELSE "unknown"]
    /\ cpc' = "vertex"
    /\ UNCHANGED <<opts, fs, events, cresult, uv_ret>>
    /\ UNCHANGED lh_vars

\* creds_info = verify_credentials()
create_verify_credentials ==
    /\ cpc = "checks"
    /\ ~opts.skip_checks
    /\ \E o \in {"ok", "raised"} :
        /\ events' = Log("verify_credentials", o)
        /\ IF o = "ok"
           THEN /\ clocals' = [clocals EXCEPT !.creds = "verified"]
                /\ cpc' = "confirm"
                /\ UNCHANGED cresult
           ELSE CreateRaises("Exception", "verify_credentials") /\ UNCHANGED clocals
    /\ UNCHANGED <<opts, fs, uv_ret>>
    /\ UNCHANGED lh_vars

\* unless --auto-approve, ask whether to change the credentials
create_confirm_credentials ==
    /\ cpc = "confirm"
    /\ IF ~opts.auto_approve
       THEN \E answer \in {"y", "n"} :
              /\ events' = Log("Prompt.ask change credentials", answer)
              /\ cpc' = IF answer = "y" THEN "credential_change" ELSE "uv_version"
       ELSE /\ cpc' = "uv_version"
            /\ UNCHANGED events
    /\ UNCHANGED <<opts, clocals, fs, cresult, uv_ret>>
    /\ UNCHANGED lh_vars

\* how handle_credential_change (with handle_project_change) can go
CredentialChangeOutcomes ==
    {"login_failed", "verify_failed", "kept_project", "set_project_failed",
     "set_quota_failed", "final_verify_failed", "project_changed"}

CredentialChangeRuns(o) ==
    LET login == <<"gcloud auth login", IF o = "login_failed" THEN "failed" ELSE "ok">>
        verify == <<"verify_credentials", IF o = "verify_failed" THEN "raised" ELSE "ok">>
        ask == <<"Prompt.ask change project", IF o = "kept_project" THEN "n" ELSE "y">>
        new == <<"Prompt.ask new project", "p">>
        project == <<"gcloud config set project", IF o = "set_project_failed" THEN "failed" ELSE "ok">>
        quota == <<"gcloud set-quota-project", IF o = "set_quota_failed" THEN "failed" ELSE "ok">>
        final == <<"verify_credentials", IF o = "final_verify_failed" THEN "raised" ELSE "ok">>
    IN  CASE o = "login_failed" -> <<login>>
          [] o = "verify_failed" -> <<login, verify>>
          [] o = "kept_project" -> <<login, verify, ask>>
          [] o = "set_project_failed" -> <<login, verify, ask, new, project>>
          [] o = "set_quota_failed" -> <<login, verify, ask, new, project, quota>>
          [] OTHER -> <<login, verify, ask, new, project, quota, final>>

CredentialChangeError(o) ==
    CASE o \in {"login_failed", "set_project_failed", "set_quota_failed"} -> "CalledProcessError"
      [] o \in {"verify_failed", "final_verify_failed"} -> "Exception"
      [] OTHER -> "none"

handle_credential_change ==
    /\ cpc = "credential_change"
    /\ \E o \in CredentialChangeOutcomes :
        /\ events' = events \o CredentialChangeRuns(o)
        /\ IF CredentialChangeError(o) = "none"
           THEN cpc' = "uv_version" /\ UNCHANGED cresult
           ELSE CreateRaises(CredentialChangeError(o), "credential_change")
    /\ UNCHANGED <<opts, clocals, fs, uv_ret>>
    /\ UNCHANGED lh_vars

---------------------------------------------------------------------------
(* check_and_install_uv, called from create *)

UvReturned == [kind |-> "return"]

UvRaised(exc) == [kind |-> "raise", exc |-> exc]

\* "uv --version": exit code 0, another exit code, TimeoutExpired, or
\* FileNotFoundError
UvVersionOutcomes == {"exit0", "nonzero", "timeout", "not_found"}

UvAfterVersion_any_exit(o) == IF o \in {"exit0", "nonzero"} THEN "return" ELSE "prompt"

\* return when process.returncode == 0, else go on to the prompt
UvAfterVersion(o) == IF o = "exit0" THEN "return" ELSE "prompt"

uv_version_check ==
    /\ cpc = "uv_version"
    /\ \E o \in UvVersionOutcomes :
        /\ events' = Log("uv --version", o)
        /\ IF UvAfterVersion(o) = "return"
           THEN uv_ret' = UvReturned /\ cpc' = "vertex"
           ELSE uv_ret' = uv_ret /\ cpc' = "uv_prompt"
    /\ UNCHANGED <<opts, clocals, fs, cresult>>
    /\ UNCHANGED lh_vars

\* Prompt.ask(..., choices=["y", "n"], default="y"); "n" raises click.Abort
uv_prompt ==
    /\ cpc = "uv_prompt"
    /\ \E install_choice \in {"y", "n"} :
        /\ events' = Log("Prompt.ask install uv", install_choice)
        /\ IF install_choice = "y"
           THEN cpc' = "uv_install" /\ UNCHANGED <<uv_ret, cresult>>
           ELSE uv_ret' = UvRaised("Abort") /\ CreateRaises("Abort", "check_and_install_uv")
    /\ UNCHANGED <<opts, clocals, fs>>
    /\ UNCHANGED lh_vars

\* the install command: done, CalledProcessError, or TimeoutExpired
UvInstallOutcomes == {"ok", "failed", "timeout"}

UvInstallError(o) ==
    CASE o = "failed" -> "CalledProcessError"
      [] o = "timeout" -> "TimeoutExpired"
      [] OTHER -> "none"

uv_install ==
    /\ cpc = "uv_install"
    /\ \E o \in UvInstallOutcomes :
        /\ events' = Log("install uv", o)
        /\ IF UvInstallError(o) = "none"
           THEN uv_ret' = UvReturned /\ cpc' = "vertex" /\ UNCHANGED cresult
           ELSE /\ uv_ret' = UvRaised(UvInstallError(o))
                /\ CreateRaises(UvInstallError(o), "check_and_install_uv")
    /\ UNCHANGED <<opts, clocals, fs>>
    /\ UNCHANGED lh_vars

---------------------------------------------------------------------------
(* create: the Vertex AI connection test and the template *)

AfterVertex_swallow(o) == "template"

\* the except clause prints the failure and re-raises it
AfterVertex(o) == IF o = "ok" THEN "template" ELSE "raise"

\* runs whether or not --skip-checks was given
create_verify_vertex ==
    /\ cpc = "vertex"
    /\ \E o \in {"ok", "raised"} :
        /\ events' = Log("verify_vertex_connection", o)
        /\ IF AfterVertex(o) = "template"
           THEN cpc' = "template" /\ UNCHANGED cresult
           ELSE CreateRaises("Exception", "verify_vertex_connection")
    /\ UNCHANGED <<opts, clocals, fs, uv_ret>>
    /\ UNCHANGED lh_vars

\* get_template_path, then destination_dir.mkdir(parents=True) if needed
create_prepare_output ==
    /\ cpc = "template"
    /\ events' = events \o <<<<"get_template_path", "ok">>>>
                        \o (IF fs.dest THEN <<>> ELSE <<<<"mkdir", "ok">>>>)
    /\ fs' = [fs EXCEPT !.dest = TRUE]
    /\ cpc' = "process"
    /\ UNCHANGED <<opts, clocals, cresult, uv_ret>>
    /\ UNCHANGED lh_vars

create_process_template ==
    /\ cpc = "process"
    /\ \E o \in {"ok", "raised"} :
        /\ events' = Log("process_template", o)
        /\ IF o = "ok"
           THEN /\ fs' = [fs EXCEPT !.project = TRUE]
                /\ cpc' = "finish"
                /\ UNCHANGED cresult
           ELSE CreateRaises("Exception", "process_template") /\ UNCHANGED fs
    /\ UNCHANGED <<opts, clocals, uv_ret>>
    /\ UNCHANGED lh_vars

\* if region != "us-central1": replace_region_in_files(...); then return
create_finish ==
    /\ cpc = "finish"
    /\ IF clocals.region # DefaultRegion
       THEN /\ events' = Log("replace_region_in_files", clocals.region)
            /\ fs' = [fs EXCEPT !.replaced = TRUE]
       ELSE UNCHANGED <<events, fs>>
    /\ CreateReturns("end")
    /\ UNCHANGED <<opts, clocals, uv_ret>>
    /\ UNCHANGED lh_vars

InitCreate ==
    /\ LighthouseIdle
    /\ audit_data = EmptyDict
    /\ cpc = "start"
    /\ opts \in CreateOptions
    /\ clocals = [agent |-> "none",
                  deployment |-> "none",
                  ingestion |-> opts.include_data_ingestion,
                  region |-> IF opts.region = "default" THEN DefaultRegion ELSE opts.region,
                  creds |-> "unset"]
    /\ fs \in FileSystems
    /\ events = <<>>
    /\ cresult = CreateRunning
    /\ uv_ret = [kind |-> "none"]

NextCreate ==
    \/ create_check_project
    \/ create_select_agent
    \/ create_deployment_target
    \/ create_data_ingestion
    \/ create_region
    \/ create_gcloud_config
    \/ create_skip_checks
    \/ create_verify_credentials
    \/ create_confirm_credentials
    \/ handle_credential_change
    \/ uv_version_check
    \/ uv_prompt
    \/ uv_install
    \/ create_verify_vertex
    \/ create_prepare_output
    \/ create_process_template
    \/ create_finish

SpecCreate == InitCreate /\ [][NextCreate]_vars

---------------------------------------------------------------------------
(* Properties of chunk_report *)

ChunkReportReturned == pc = "idle" /\ result.kind = "return" /\ result.fn = "chunk_report"

\* the audits of the chunks of cs, concatenated in chunk order
ConcatAudits(cs) == Flatten([i \in 1..Len(cs) |-> Items(cs[i].audits)])

\* the serialized sizes of the entries of an audits mapping
SizesOf(od) == [i \in 1..Len(od) |-> JsonDumpsLen(od[i][2])]

\* C1: the audits of the returned chunks, concatenated in chunk order and
\* in each chunk's entry order, are the report's audits: same keys, same
\* values, same order, nothing lost and nothing duplicated.
C1_ChunksReproduceAudits ==
    ChunkReportReturned => ConcatAudits(result.v) = AuditsOf(report)

C1_Witness ==
    /\ ChunkReportReturned
    /\ Len(result.v) >= 2
    /\ Len(AuditsOf(report)) >= 3
    /\ Len(result.v[1].audits) >= 2

\* the report of C2: audits a, b, c of serialized size 3000, budget 8000
ThreeOf3000 ==
    /\ Keys(AuditsOf(report)) = <<"a", "b", "c">>
    /\ SizesOf(AuditsOf(report)) = <<3000, 3000, 3000>>
    /\ max_chunk_size = 8000

\* C2 as stated: with audits a, b, c of size 3000 each and max_chunk_size
\* 8000, chunk_report returns exactly one chunk, holding a, b and c.
C2_OneChunkOfThree ==
    (ChunkReportReturned /\ ThreeOf3000) =>
        /\ Len(result.v) = 1
        /\ Keys(result.v[1].audits) = <<"a", "b", "c">>

\* C2 amended: with audits a, b, c of size 3000 each and max_chunk_size
\* 8000, chunk_report returns exactly two chunks, the first holding a and b
\* and the second holding c.
C2_TwoChunks ==
    (ChunkReportReturned /\ ThreeOf3000) =>
        /\ Len(result.v) = 2
        /\ Keys(result.v[1].audits) = <<"a", "b">>
        /\ Keys(result.v[2].audits) = <<"c">>

C2_Witness == ChunkReportReturned /\ ThreeOf3000 /\ Len(result.v) = 2

\* C3: no returned chunk is empty, and a report with zero audits or no
\* audits field yields the empty list of chunks.
C3_NoEmptyChunk ==
    ChunkReportReturned =>
        /\ \A i \in 1..Len(result.v) : Len(result.v[i].audits) >= 1
        /\ (("audits" \notin DOMAIN report \/ report["audits"] = <<>>) => result.v = <<>>)

\* an entry larger than the budget comes first: the split test runs on an
\* empty running chunk
C3_Witness ==
    /\ ChunkReportReturned
    /\ Len(AuditsOf(report)) >= 2
    /\ JsonDumpsLen(AuditsOf(report)[1][2]) > max_chunk_size
    /\ Len(result.v) >= 2

C3_WitnessNoAudits ==
    ChunkReportReturned /\ "audits" \notin DOMAIN report /\ result.v = <<>>

\* C4: every returned chunk has a metadata field equal to the report's
\* metadata (the empty mapping when the report has no metadata field),
\* the chunks started after a split and the final chunk included.
C4_ChunkMetadata ==
    ChunkReportReturned =>
        \A i \in 1..Len(result.v) :
            /\ "metadata" \in DOMAIN result.v[i]
            /\ ("metadata" \in DOMAIN report => result.v[i]["metadata"] = report["metadata"])
            /\ ("metadata" \notin DOMAIN report => result.v[i]["metadata"] = EmptyDict)

C4_Witness ==
    /\ ChunkReportReturned
    /\ "metadata" \in DOMAIN report
    /\ Len(result.v) >= 3

\* C5: an entry whose own serialized size exceeds max_chunk_size is in
\* exactly one returned chunk, and that chunk holds this entry and no
\* other, whatever the entry's position.
C5_OversizedAlone ==
    ChunkReportReturned =>
        \A k \in 1..Len(AuditsOf(report)) :
            JsonDumpsLen(AuditsOf(report)[k][2]) > max_chunk_size =>
                /\ \E i \in 1..Len(result.v) : Items(result.v[i].audits) = <<AuditsOf(report)[k]>>
                /\ \A i \in 1..Len(result.v) :
                       (\E j \in 1..Len(result.v[i].audits) :
                            result.v[i].audits[j][1] = AuditsOf(report)[k][1])
                       => Len(result.v[i].audits) = 1

\* an oversized entry in the middle, between two entries that fit
C5_Witness ==
    /\ ChunkReportReturned
    /\ Len(AuditsOf(report)) = 3
    /\ JsonDumpsLen(AuditsOf(report)[1][2]) <= max_chunk_size
    /\ JsonDumpsLen(AuditsOf(report)[2][2]) > max_chunk_size
    /\ JsonDumpsLen(AuditsOf(report)[3][2]) <= max_chunk_size
    /\ Len(result.v) = 3

---------------------------------------------------------------------------
(* Properties of extract_issues *)

ExtractIssuesReturned ==
    pc = "idle" /\ result.kind = "return" /\ result.fn = "extract_issues"

\* positions of the entries of the report whose score is present and below 1.0
FailingPositions ==
    {k \in 1..Len(AuditsOf(report)) :
        /\ "score" \in DOMAIN AuditsOf(report)[k][2]
        /\ AuditsOf(report)[k][2]["score"] < 10}

\* the n-th failing position, counted in the order of the audits mapping
NthFailing(n) ==
    CHOOSE k \in FailingPositions : Cardinality({j \in FailingPositions : j < k}) = n - 1

\* C6: extract_issues returns exactly one issue record per entry of score
\* below 1.0, in the order of these entries in the audits mapping; entries
\* of score 1.0 or without a score give none.
C6_OneIssuePerFailingEntry ==
    ExtractIssuesReturned =>
        /\ Len(result.v) = Cardinality(FailingPositions)
        /\ \A n \in 1..Len(result.v) :
               LET data == AuditsOf(report)[NthFailing(n)][2]
               IN  /\ result.v[n].score = data["score"]
                   /\ result.v[n].title = Get(data, "title", "Unknown Issue")
                   /\ result.v[n].description = Get(data, "description", "")

\* two failing entries of different scores with an entry without score
\* before them
C6_Witness ==
    /\ ExtractIssuesReturned
    /\ Len(AuditsOf(report)) = 3
    /\ "score" \notin DOMAIN AuditsOf(report)[1][2]
    /\ Len(result.v) = 2
    /\ result.v[1].score = 6
    /\ result.v[2].score = 3

\* the text argument does not decode into a report: malformed JSON, or
\* JSON whose top level is not a mapping
NotAReportText(a) ==
    IsStr(a) /\ (~a.s.wellformed \/ ~IsDict(a.s.value))

\* ValueError("Invalid JSON report") is the code's InvalidReportFormat
InvalidReportFormat == Raise("extract_issues", "ValueError")

\* C7: extract_issues called with a string that is malformed JSON or JSON
\* that is not a mapping fails with InvalidReportFormat and returns nothing.
C7_InvalidReportFormat ==
    (pc = "idle" /\ result # NoResult /\ result.fn = "extract_issues" /\ NotAReportText(arg))
        => result = InvalidReportFormat

---------------------------------------------------------------------------
(* Properties of _calculate_impact *)

ImpactReturned == ret.fn = "_calculate_impact"

HasScore == "score" \in DOMAIN audit_data

ScoreOf == audit_data["score"]

WeightOf == IF "weight" \in DOMAIN audit_data THEN audit_data["weight"] ELSE 0

\* C8: for a failing entry the impact is high exactly when score < 0.5 and
\* weight > 3 (weight 0 when absent), and medium exactly when score < 0.8
\* and the high condition does not hold; (0.3, 5) is high, (0.6, 1) is
\* medium and (0.9, 10) is low.
C8_HighAndMedium ==
    (ImpactReturned /\ HasScore /\ ScoreOf < 10) =>
        /\ (ret.v = "high") <=> (ScoreOf < 5 /\ WeightOf > 3)
        /\ (ret.v = "medium") <=> (ScoreOf < 8 /\ ~(ScoreOf < 5 /\ WeightOf > 3))
        /\ (audit_data = [score |-> 3, weight |-> 5] => ret.v = "high")
        /\ (audit_data = [score |-> 6, weight |-> 1] => ret.v = "medium")
        /\ (audit_data = [score |-> 9, weight |-> 10] => ret.v = "low")

\* the boundary score 0.5 with a heavy weight: medium, not high
C8_Witness ==
    /\ ImpactReturned
    /\ audit_data = [score |-> 5, weight |-> 4]
    /\ ret.v = "medium"

\* C9 as stated: the impact is low whenever the score is at least 0.8, and
\* also whenever the score is at least 0.5 and the weight is at most 3.
C9_LowByWeight ==
    (ImpactReturned /\ HasScore) =>
        /\ (ScoreOf >= 8 => ret.v = "low")
        /\ ((ScoreOf >= 5 /\ WeightOf <= 3) => ret.v = "low")

\* C9 amended: the impact is low whenever the score is at least 0.8 and
\* only then; an entry of score at least 0.5 and below 0.8 is medium
\* whatever its weight.
C9_LowIffScoreAtLeast8 ==
    (ImpactReturned /\ HasScore) =>
        /\ (ret.v = "low") <=> (ScoreOf >= 8)
        /\ ((ScoreOf >= 5 /\ ScoreOf < 8) => ret.v = "medium")

C9_Witness ==
    /\ ImpactReturned
    /\ audit_data = [score |-> 6, weight |-> 1]
    /\ ret.v = "medium"

---------------------------------------------------------------------------
(* Properties of _extract_suggestions *)

SuggestionsReturned == ret.fn = "_extract_suggestions"

\* the mapping items of details.items of the entry
MappingItems ==
    IF "details" \in DOMAIN audit_data /\ "items" \in DOMAIN audit_data["details"]
    THEN {x \in Range(audit_data["details"]["items"]) : x.type = "dict"}
    ELSE {}

\* the description, if the key is present, and every value under one of the
\* keys suggestion, recommendation, message of a mapping item
ExpectedSuggestions ==
    (IF "description" \in DOMAIN audit_data THEN {audit_data["description"]} ELSE {})
    \cup UNION {{x.v[k] : k \in DOMAIN x.v \cap {"suggestion", "recommendation", "message"}} :
                x \in MappingItems}

\* C10: the suggestions hold no string twice and, as a set, are the
\* description (when that key is present) and the values under suggestion,
\* recommendation or message in the mapping items of details.items; without
\* a details field they are the description and nothing else.
C10_Suggestions ==
    SuggestionsReturned =>
        /\ \A i, j \in 1..Len(ret.v) : i # j => ret.v[i] # ret.v[j]
        /\ Range(ret.v) = ExpectedSuggestions
        /\ ("details" \notin DOMAIN audit_data =>
               ret.v = IF "description" \in DOMAIN audit_data
                       THEN <<audit_data["description"]>> ELSE <<>>)

\* the description is repeated by an item, and an item adds another text
C10_Witness ==
    /\ SuggestionsReturned
    /\ "description" \in DOMAIN audit_data
    /\ Len(SuggestionsList(audit_data)) >= 3
    /\ \E x \in MappingItems :
           \E k \in DOMAIN x.v \cap {"suggestion", "recommendation", "message"} :
               x.v[k] = audit_data["description"]
    /\ Len(ret.v) = 2

---------------------------------------------------------------------------
(* Properties of _extract_code_snippet *)

SnippetReturned == ret.fn = "_extract_code_snippet"

\* details.items of the entry, empty when details or items is absent
ItemsOfEntry ==
    IF "details" \in DOMAIN audit_data /\ "items" \in DOMAIN audit_data["details"]
    THEN audit_data["details"]["items"]
    ELSE <<>>

\* positions of the items that are mappings with a snippet, source or code key
SnippetPositions ==
    {i \in 1..Len(ItemsOfEntry) :
        /\ ItemsOfEntry[i].type = "dict"
        /\ DOMAIN ItemsOfEntry[i].v \cap {"snippet", "source", "code"} # {}}

FirstSnippetItem ==
    ItemsOfEntry[CHOOSE i \in SnippetPositions : \A j \in SnippetPositions : i <= j].v

\* the key used in an item: the first present of snippet, source, code
PreferredKey(item) ==
    IF "snippet" \in DOMAIN item THEN "snippet"
    ELSE IF "source" \in DOMAIN item THEN "source"
    ELSE "code"

\* text is stripped of markup, any other value is converted to text
Cleaned(value) == IF value.type = "str" THEN GetText(value) ELSE Str(value)

\* C11: the code snippet comes from the first item of details.items, in
\* list order, that is a mapping with one of the keys snippet, source, code;
\* in that item the key used is the first present of snippet, source, code;
\* it is none when no item matches or details or items is absent.
C11_FirstMatchingItem ==
    SnippetReturned =>
        IF SnippetPositions = {}
        THEN ret.v = None
        ELSE ret.v = Cleaned(FirstSnippetItem[PreferredKey(FirstSnippetItem)])

\* the first matching item has only a source, a later item has a snippet
C11_Witness ==
    /\ SnippetReturned
    /\ Len(ItemsOfEntry) = 2
    /\ ItemsOfEntry[1] = [type |-> "dict", v |-> [source |-> [type |-> "int", n |-> 42],
                                                   code |-> MarkedUpSnippet]]
    /\ ItemsOfEntry[2] = [type |-> "dict", v |-> [snippet |-> MarkedUpSnippet]]
    /\ ret.v = [type |-> "str", s |-> <<"42">>]

---------------------------------------------------------------------------
(* Greedy packing *)

RECURSIVE SumOf(_)
SumOf(s) == IF s = <<>> THEN 0 ELSE Head(s) + SumOf(Tail(s))

\* total serialized size of the entries of a chunk
ChunkTotal(chunk) == SumOf(SizesOf(chunk.audits))

\* C15: in the result of chunk_report every chunk of two or more entries
\* has a total serialized entry size of at most max_chunk_size, and for
\* every two consecutive chunks the total of the earlier plus the size of
\* the first entry of the later exceeds max_chunk_size.
C15_GreedyPacking ==
    ChunkReportReturned =>
        /\ \A i \in 1..Len(result.v) :
               Len(result.v[i].audits) >= 2 => ChunkTotal(result.v[i]) <= max_chunk_size
        /\ \A i \in 1..(Len(result.v) - 1) :
               ChunkTotal(result.v[i]) + JsonDumpsLen(result.v[i + 1].audits[1][2])
                   > max_chunk_size

\* a chunk filled exactly to the budget, followed by another chunk
C15_Witness ==
    /\ ChunkReportReturned
    /\ Len(result.v) >= 2
    /\ Len(result.v[1].audits) >= 2
    /\ ChunkTotal(result.v[1]) = max_chunk_size

---------------------------------------------------------------------------
(* Entries that lack optional fields *)

\* extract_issues has finished on an argument that decodes into the report
ExtractIssuesDoneOnReport ==
    /\ pc = "idle"
    /\ result # NoResult
    /\ result.fn = "extract_issues"
    /\ ~NotAReportText(arg)

\* C12: extract_issues does not fail on entries that lack score, weight,
\* details or items: an entry without score gives no issue, a missing
\* weight counts as 0 (the impact is never high), and without details or
\* items the suggestions hold nothing but the description and the code
\* snippet is none.
C12_MissingFieldsDefault ==
    ExtractIssuesDoneOnReport =>
        /\ result.kind = "return"
        /\ Len(result.v) = Cardinality(FailingPositions)
        /\ \A n \in 1..Len(result.v) :
               LET data == AuditsOf(report)[NthFailing(n)][2]
                   issue == result.v[n]
               IN  /\ "weight" \notin DOMAIN data =>
                          issue.impact = IF data["score"] < 8 THEN "medium" ELSE "low"
                   /\ ("details" \notin DOMAIN data \/ "items" \notin DOMAIN data["details"]) =>
                          /\ Range(issue.suggestions) \subseteq
                                 (IF "description" \in DOMAIN data
                                  THEN {data["description"]} ELSE {})
                          /\ issue.code_snippet = None

\* a failing entry with nothing but a title and a low score
C12_Witness ==
    /\ ExtractIssuesReturned
    /\ Len(AuditsOf(report)) = 1
    /\ DOMAIN AuditsOf(report)[1][2] = {"title", "score", "json_len"}
    /\ AuditsOf(report)[1][2]["score"] = 3
    /\ Len(result.v) = 1
    /\ result.v[1].impact = "medium"
    /\ result.v[1].suggestions = <<>>

---------------------------------------------------------------------------
(* The input report across a sequence of calls *)

\* the chunks a call returns when it starts from nothing but the report r
\* and the budget m: st holds the list, the running chunk and its size
ChunkStep(st, pair, m, r) ==
    LET audit_size == JsonDumpsLen(pair[2])
        split == st.size + audit_size > m /\ st.cur.audits # <<>>
        cur == IF split THEN [metadata |-> Get(r, "metadata", EmptyDict), audits |-> <<>>]
               ELSE st.cur
    IN  [list |-> IF split THEN Append(st.list, st.cur) ELSE st.list,
         cur |-> [cur EXCEPT !.audits = Append(@, pair)],
         size |-> (IF split THEN 0 ELSE st.size) + audit_size]

RECURSIVE ChunkFrom(_, _, _, _)
ChunkFrom(st, items, m, r) ==
    IF items = <<>>
    THEN (IF st.cur.audits # <<>> THEN Append(st.list, st.cur) ELSE st.list)
    ELSE ChunkFrom(ChunkStep(st, Head(items), m, r), Tail(items), m, r)

ChunksOfReportAlone(r, m) ==
    ChunkFrom([list |-> <<>>,
               cur |-> [metadata |-> Get(r, "metadata", EmptyDict), audits |-> <<>>],
               size |-> 0],
              AuditsOf(r), m, r)

\* an issue record with its suggestions taken as a set (their order is not
\* specified)
UpToOrder(issue) == [issue EXCEPT !.suggestions = Range(@)]

\* the issues a call returns when it starts from nothing but the report r
RECURSIVE IssuesFrom(_)
IssuesFrom(items) ==
    IF items = <<>> THEN <<>>
    ELSE LET data == Head(items)[2]
         IN  (IF "score" \in DOMAIN data /\ data["score"] < 10
              THEN <<UpToOrder(AuditIssue(data, SuggestionsList(data)))>>
              ELSE <<>>)
             \o IssuesFrom(Tail(items))

IssuesOfReportAlone(r) == IssuesFrom(AuditsOf(r))

\* C14: no step of extract_issues or chunk_report changes the report
\* (metadata, audits mapping, key order, entries), and what a call returns,
\* after any sequence of earlier calls on the same report, is what a call
\* on that report alone returns.
C14_ReportUnchanged ==
    [][/\ report' = report
       /\ ChunkReportReturned' =>
              result'.v = ChunksOfReportAlone(report, max_chunk_size')
       /\ ExtractIssuesReturned' =>
              [n \in 1..Len(result'.v) |-> UpToOrder(result'.v[n])] = IssuesOfReportAlone(report)
      ]_vars

\* a second call has returned, after a first call that produced chunks
C14_Witness ==
    /\ calls >= 2
    /\ ChunkReportReturned
    /\ Len(result.v) >= 2
---------------------------------------------------------------------------
(* Properties of create and check_and_install_uv *)

CreateStarted == cpc # "off"

CallsOf(names) == {i \in 1..Len(events) : events[i][1] \in names}

VerificationCalls ==
    {"verify_credentials", "uv --version", "Prompt.ask install uv", "install uv",
     "verify_vertex_connection"}

\* C13: with --skip-checks, no credential verification, no uv check and no
\* Vertex AI connection test is performed in the run
C13_SkipChecksSkipsAll ==
    (CreateStarted /\ opts.skip_checks) => CallsOf(VerificationCalls) = {}

OutputCalls == {"mkdir", "process_template", "replace_region_in_files"}

AbortedBeforeTemplate ==
    /\ cpc = "done"
    /\ \/ cresult.kind = "return" /\ cresult.at = "project_exists"
       \/ /\ cresult.kind = "raise"
          /\ cresult.at \in {"agent_selection", "gcloud_config", "check_and_install_uv",
                             "verify_vertex_connection"}

C16_WitnessVertexRaised ==
    /\ cpc = "done"
    /\ cresult.kind = "raise" /\ cresult.at = "verify_vertex_connection"
    /\ ~opts.skip_checks

IsUvCall(e) == e[1] \in {"uv --version", "Prompt.ask install uv", "install uv"}

UvCalls == SelectSeq(events, IsUvCall)

UvInstalledNow ==
    /\ Len(UvCalls) = 3
    /\ UvCalls[1][1] = "uv --version" /\ UvCalls[1][2] \in {"nonzero", "timeout", "not_found"}
    /\ UvCalls[2] = <<"Prompt.ask install uv", "y">>
    /\ UvCalls[3] = <<"install uv", "ok">>

\* C17: check_and_install_uv returns normally only when "uv --version"
\* exited with code 0 (no prompt, no install), or the answer was "y" and the
\* install completed; answer "n" raises click.Abort without an install, and
\* a failed or timed out install is re-raised
C17_UvReturnsOnlyWhenPresent ==
    CreateStarted =>
        /\ uv_ret = UvReturned =>
              \/ UvCalls = <<<<"uv --version", "exit0">>>>
              \/ UvInstalledNow
        /\ CallsOf({"Prompt.ask install uv"}) # {} =>
              UvCalls[1][2] \in {"nonzero", "timeout", "not_found"}
        /\ (Len(UvCalls) >= 2 /\ UvCalls[2][2] = "n") =>
              (uv_ret = UvRaised("Abort") /\ CallsOf({"install uv"}) = {})
        /\ (Len(UvCalls) = 3 /\ UvCalls[3][2] = "failed") =>
              uv_ret = UvRaised("CalledProcessError")
        /\ (Len(UvCalls) = 3 /\ UvCalls[3][2] = "timeout") =>
              uv_ret = UvRaised("TimeoutExpired")

C17_Witness == uv_ret = UvReturned /\ UvInstalledNow

C17_WitnessAbort == uv_ret = UvRaised("Abort") /\ cpc = "done"

====
